---------------------------- MODULE Spec2Model ----------------------------
(***************************************************************************)
(* Model of four Home Assistant integration modules:                       *)
(*   - components/geo_location/trigger.py  (geolocation automation trigger)*)
(*   - components/ialarm/config_flow.py    (iAlarm config flow)            *)
(*   - components/climacell/weather.py     (ClimaCell weather entities)    *)
(* Each component is driven by the host; it has its own specification      *)
(* (SpecGeo, SpecFlow, ...) over its own variables, the variables of the   *)
(* other components staying idle.                                          *)
(*                                                                         *)
(* Conventions.  Python strings that the code inspects (lower(), `in`) are *)
(* sequences of one-character strings.  Python's None is the record None   *)
(* for objects and NoneVal for optional scalars.                           *)
(***************************************************************************)
EXTENDS Integers, Sequences, FiniteSets, TLC

VARIABLES
    \* ---- geo_location trigger
    trigger,        \* closure of async_attach_trigger, or NotAttached
    events,         \* state-change events delivered to the listener so far
    calls,          \* hass.async_run_hass_job invocations, in order
    \* ---- ialarm config flow
    flows,          \* the IAlarmConfigFlow instances the host runs
    entries,        \* the host's config entries of the domain, in creation order
    \* ---- climacell weather entity
    wx,             \* the entity and its host: api_version, forecast_type,
                    \* timestep option, hass.config.units.is_metric, the time
    coordinator,    \* coordinator.data: current conditions and raw forecasts
    prop,           \* the entity property the host read last
    value           \* what that property returned

geo_vars == <<trigger, events, calls>>
flow_vars == <<flows, entries>>
wx_vars == <<wx, coordinator, prop, value>>
vars == <<trigger, events, calls, flows, entries, wx, coordinator, prop, value>>

-----------------------------------------------------------------------------
(* Shared helpers                                                          *)

\* Python's None for an object (a State, a closure).
None == [is_none |-> TRUE]

\* Python's None for an optional string attribute.
NoneVal == <<"<None>">>

UpperCase == <<"A", "B", "C", "D", "E", "F", "G", "H", "I", "J", "K", "L", "M",
               "N", "O", "P", "Q", "R", "S", "T", "U", "V", "W", "X", "Y", "Z">>
LowerCase == <<"a", "b", "c", "d", "e", "f", "g", "h", "i", "j", "k", "l", "m",
               "n", "o", "p", "q", "r", "s", "t", "u", "v", "w", "x", "y", "z">>

\* str.lower() on one character.
LowerChar(c) ==
    IF \E i \in DOMAIN UpperCase : UpperCase[i] = c
    THEN LowerCase[CHOOSE i \in DOMAIN UpperCase : UpperCase[i] = c]
    ELSE c

\* str.lower()
Lower(s) == [i \in DOMAIN s |-> LowerChar(s[i])]

\* Python's `sub in s` on strings.
Contains(s, sub) ==
    \E k \in 0..(Len(s) - Len(sub)) :
        \A i \in DOMAIN sub : s[k + i] = sub[i]

\* A Python number: the record of its value, in thousandths (floats are
\* fixed-point numbers with three decimals); None is the record None.
Num(n) == [is_none |-> FALSE, v |-> n]

\* Python truthiness of a number-or-None.
TruthyNum(x) == x # None /\ x.v # 0

-----------------------------------------------------------------------------
(* geo_location/trigger.py                                                 *)

EVENT_ENTER == "enter"
EVENT_LEAVE == "leave"

\* Number of state-change events the host delivers in a run.
MaxEvents == 2

\* CONF_SOURCE values an automation may be configured with.
ConfigSources == {<<"n", "s">>, <<"N", "s">>, <<"q">>}

\* Values of the "source" attribute of a geo_location entity state
\* (NoneVal: the state has no such attribute).
StateSources == {NoneVal, <<"n", "s">>, <<"N", "s">>}

\* A geo_location entity state: its "source" attribute, and whether its
\* position lies in the trigger's zone.
GeoStates == [is_none : {FALSE}, source : StateSources, in_zone : BOOLEAN]

\* event.data: old_state and new_state, either of which may be None.
GeoEvents == [old_state : GeoStates \cup {None}, new_state : GeoStates \cup {None}]

NotAttached == None

\* homeassistant.helpers.condition.zone for the trigger's zone entity.
zone(state) == state.in_zone

\* Python truthiness of a State-or-None.
Truthy(state) == state # None

\* Mutant of source_match: the source attribute is not compared.
source_match_any_source(state, source) ==
    Truthy(state)

source_match(state, source) ==
    Truthy(state) /\ state.source = source

\* The trigger payload handed to the automation action.
TriggerData(tr, event) ==
    [platform   |-> "geo_location",
     source     |-> tr.source,
     from_state |-> event.old_state,
     to_state   |-> event.new_state,
     event      |-> tr.trigger_event]

\* Mutant of state_change_listener: a missing state counts as in the zone.
state_change_listener_missing_state_in_zone(tr, event) ==
    LET from_state == event.old_state
        to_state   == event.new_state
    IN  IF ~source_match(from_state, tr.source) /\ ~source_match(to_state, tr.source)
        THEN <<>>
        ELSE LET from_match == IF Truthy(from_state) THEN zone(from_state) ELSE TRUE
                 to_match   == IF Truthy(to_state) THEN zone(to_state) ELSE TRUE
             IN  IF \/ tr.trigger_event = EVENT_ENTER /\ ~from_match /\ to_match
                    \/ tr.trigger_event = EVENT_LEAVE /\ from_match /\ ~to_match
                 THEN <<TriggerData(tr, event)>>
                 ELSE <<>>

\* Body of state_change_listener: the job invocations one event causes.
state_change_listener(tr, event) ==
    LET from_state == event.old_state
        to_state   == event.new_state
    IN  IF ~source_match(from_state, tr.source) /\ ~source_match(to_state, tr.source)
        THEN <<>>
        ELSE LET from_match == IF Truthy(from_state) THEN zone(from_state) ELSE FALSE
                 to_match   == IF Truthy(to_state) THEN zone(to_state) ELSE FALSE
             IN  IF \/ tr.trigger_event = EVENT_ENTER /\ ~from_match /\ to_match
                    \/ tr.trigger_event = EVENT_LEAVE /\ from_match /\ ~to_match
                 THEN <<TriggerData(tr, event)>>
                 ELSE <<>>

\* Mutant of async_attach_trigger: the configured source is bound as it is.
async_attach_trigger_keeps_case ==
    /\ trigger = NotAttached
    /\ \E src \in ConfigSources, ev \in {EVENT_ENTER, EVENT_LEAVE} :
          trigger' = [is_none |-> FALSE, conf_source |-> src,
                      source |-> src, trigger_event |-> ev]
    /\ UNCHANGED <<events, calls, flow_vars, wx_vars>>

\* async_attach_trigger: binds source (config[CONF_SOURCE], lowercased) and
\* trigger_event, and registers the listener.  conf_source is
\* config[CONF_SOURCE] as configured.
async_attach_trigger ==
    /\ trigger = NotAttached
    /\ \E src \in ConfigSources, ev \in {EVENT_ENTER, EVENT_LEAVE} :
          trigger' = [is_none |-> FALSE, conf_source |-> src,
                      source |-> Lower(src), trigger_event |-> ev]
    /\ UNCHANGED <<events, calls, flow_vars, wx_vars>>

\* The host delivers one state-change event to the registered listener.
DeliverEvent ==
    /\ trigger # NotAttached
    /\ Len(events) < MaxEvents
    /\ \E event \in GeoEvents :
          /\ events' = Append(events, event)
          /\ calls' = calls \o state_change_listener(trigger, event)
    /\ UNCHANGED <<trigger, flow_vars, wx_vars>>

GeoInit ==
    /\ trigger = NotAttached
    /\ events = <<>>
    /\ calls = <<>>

GeoNext == async_attach_trigger \/ DeliverEvent

-----------------------------------------------------------------------------
(* ialarm/config_flow.py                                                   *)

\* Number of config flows in progress at the same time.
NumFlows == 2

\* Cap on the number of config entries the host holds.
MaxEntries == 3

FlowIds == 1..NumFlows

Hosts == {"192.168.1.20", "alarm.lan"}
Ports == {18034}

\* user_input as validated by DATA_SCHEMA.
UserInputs == [host : Hosts, port : Ports]

\* MAC addresses a device may answer the probe with.
Macs == {"aa:bb", "cc:dd"}

\* Python's None as a flow's unique ID.
NoUniqueId == "None"

\* Exception classes the probe may raise, with their base class.
Bases ==
    [ConnectionRefusedError |-> "ConnectionError",
     ConnectionError        |-> "OSError",
     TimeoutError           |-> "OSError",
     OSError                |-> "Exception",
     ValueError             |-> "Exception",
     Exception              |-> "BaseException"]

ProbeExceptions ==
    {"ConnectionError", "ConnectionRefusedError", "TimeoutError", "ValueError"}

\* isinstance(exc, cls) as an except clause decides it.
RECURSIVE IsInstance(_, _)
IsInstance(exc, cls) ==
    IF exc = cls THEN TRUE
    ELSE IF exc \in DOMAIN Bases THEN IsInstance(Bases[exc], cls)
    ELSE FALSE

\* What IAlarm.get_mac does: returns a MAC address or raises.
ProbeOutcomes ==
    [kind : {"return"}, mac : Macs] \cup [kind : {"raise"}, exc : ProbeExceptions]

NoProbe == [kind |-> "none"]

\* The errors dict: a set of <<key, value>> pairs; {} also stands for the
\* errors=None of a form shown without errors.
NoErrors == {}

\* A flow the host has created and not yet called.
FreshFlow ==
    [pc         |-> "ready",
     user_input |-> None,
     probe      |-> NoProbe,
     unique_id  |-> NoUniqueId,
     result     |-> None,
     trace      |-> <<>>]

\* FlowHandler.async_show_form
async_show_form(step_id, errors) ==
    [is_none |-> FALSE, type |-> "form", step_id |-> step_id, errors |-> errors]

\* FlowHandler.async_create_entry
async_create_entry(title, data) ==
    [is_none |-> FALSE, type |-> "create_entry", title |-> title, data |-> data]

\* The result of a flow that raised AbortFlow.
AbortResult(reason) ==
    [is_none |-> FALSE, type |-> "abort", reason |-> reason]

\* ConfigFlow._abort_if_unique_id_configured: TRUE when it raises
\* AbortFlow("already_configured").
abort_if_unique_id_configured(unique_id, configured) ==
    /\ unique_id # NoUniqueId
    /\ \E i \in DOMAIN configured : configured[i].unique_id = unique_id

\* Mutant of step_user_call: the probe is made once to validate the input
\* and once more for the MAC address.
step_user_call_probes_twice(flow, user_input) ==
    IF user_input = None
    THEN [flow EXCEPT !.user_input = None,
                      !.probe = NoProbe,
                      !.result = async_show_form("user", NoErrors),
                      !.trace = <<"async_show_form">>]
    ELSE [flow EXCEPT !.pc = "probing",
                      !.user_input = user_input,
                      !.probe = NoProbe,
                      !.result = None,
                      !.trace = <<"get_mac", "get_mac">>]

\* async_step_user up to its await of the probe (lines 33-47): with no
\* input the form is returned at once, otherwise the probe is started.
step_user_call(flow, user_input) ==
    IF user_input = None
    THEN [flow EXCEPT !.user_input = None,
                      !.probe = NoProbe,
                      !.result = async_show_form("user", NoErrors),
                      !.trace = <<"async_show_form">>]
    ELSE [flow EXCEPT !.pc = "probing",
                      !.user_input = user_input,
                      !.probe = NoProbe,
                      !.result = None,
                      !.trace = <<"get_mac">>]

\* Mutant of ExceptClauses: the broad clause comes first.
ExceptClauses_broad_first ==
    <<[cls |-> "Exception", base |-> "unknown", log |-> TRUE],
      [cls |-> "ConnectionError", base |-> "cannot_connect", log |-> FALSE]>>

\* Mutant of ExceptClauses: the second clause catches OSError only.
ExceptClauses_oserror_only ==
    <<[cls |-> "ConnectionError", base |-> "cannot_connect", log |-> FALSE],
      [cls |-> "OSError", base |-> "unknown", log |-> TRUE]>>

\* The except clauses of the try statement, in order (lines 48-52): the
\* class caught, the error set, and whether the exception is logged.
ExceptClauses ==
    <<[cls |-> "ConnectionError", base |-> "cannot_connect", log |-> FALSE],
      [cls |-> "Exception", base |-> "unknown", log |-> TRUE]>>

\* Index of the first except clause that catches exc, 0 when none does.
CatchingClause(exc) ==
    LET hits == {i \in DOMAIN ExceptClauses : IsInstance(exc, ExceptClauses[i].cls)}
    IN  IF hits = {} THEN 0
        ELSE CHOOSE i \in hits : \A j \in hits : i <= j

\* Mutant of check_unique_id: the abort check runs before the unique ID is
\* set, on the flow's previous unique ID.
check_unique_id_check_first(flow, mac, configured) ==
    [unique_id |-> mac,
     abort     |-> abort_if_unique_id_configured(flow.unique_id, configured)]

\* await self.async_set_unique_id(mac); self._abort_if_unique_id_configured()
\* (lines 59-60): the flow's unique ID, and whether the flow aborts.
check_unique_id(flow, mac, configured) ==
    [unique_id |-> mac,
     abort     |-> abort_if_unique_id_configured(mac, configured)]

\* Mutant of create_entry_result: every entry gets the integration's name
\* as its title.
create_entry_result_fixed_title(user_input) ==
    async_create_entry("iAlarm", user_input)

\* self.async_create_entry(title=user_input[CONF_HOST], data=user_input)
create_entry_result(user_input) ==
    async_create_entry(user_input.host, user_input)

\* async_step_user from the probe's outcome to its return (lines 47-62). An
\* exception no clause catches leaves the step ("raised").
step_user_resume(flow, outcome, configured) ==
    IF outcome.kind = "raise"
    THEN LET c == CatchingClause(outcome.exc)
         IN  IF c = 0
             THEN [flow EXCEPT !.pc = "finished",
                               !.probe = outcome,
                               !.result = [is_none |-> FALSE, type |-> "raised",
                                           exc |-> outcome.exc]]
             ELSE [flow EXCEPT
                     !.pc = "ready",
                     !.probe = outcome,
                     !.result = async_show_form(
                                    "user", {<<"base", ExceptClauses[c].base>>}),
                     !.trace = @ \o (IF ExceptClauses[c].log
                                     THEN <<"log_exception">> ELSE <<>>)
                                 \o <<"async_show_form">>]
    ELSE LET u == check_unique_id(flow, outcome.mac, configured)
         IN  IF u.abort
             THEN [flow EXCEPT !.pc = "finished",
                               !.probe = outcome,
                               !.unique_id = u.unique_id,
                               !.result = AbortResult("already_configured"),
                               !.trace = @ \o <<"async_set_unique_id",
                                               "abort_if_unique_id_configured">>]
             ELSE [flow EXCEPT !.pc = "finished",
                               !.probe = outcome,
                               !.unique_id = u.unique_id,
                               !.result = create_entry_result(flow.user_input),
                               !.trace = @ \o <<"async_set_unique_id",
                                               "abort_if_unique_id_configured",
                                               "async_create_entry">>]

\* The host's flow manager: a create_entry result adds a config entry with
\* the flow's unique ID.
finish_flow(flow, configured) ==
    IF flow.result # None /\ flow.result.type = "create_entry"
    THEN Append(configured, [unique_id |-> flow.unique_id,
                             title     |-> flow.result.title,
                             data      |-> flow.result.data])
    ELSE configured

\* The host replaces a finished flow by a new one.
StartFlow(f) ==
    /\ flows[f].pc = "finished"
    /\ flows' = [flows EXCEPT ![f] = FreshFlow]
    /\ UNCHANGED <<entries, geo_vars, wx_vars>>

\* The host calls async_step_user (with the form's input, or with none).
StepUserCall(f) ==
    /\ flows[f].pc = "ready"
    /\ \E user_input \in UserInputs \cup {None} :
          flows' = [flows EXCEPT ![f] = step_user_call(@, user_input)]
    /\ UNCHANGED <<entries, geo_vars, wx_vars>>

\* The executor job running get_mac ends and async_step_user runs on to its
\* return.
StepUserResume(f) ==
    /\ flows[f].pc = "probing"
    /\ Len(entries) < MaxEntries
    /\ \E outcome \in ProbeOutcomes :
          LET flow == step_user_resume(flows[f], outcome, entries)
          IN  /\ flows' = [flows EXCEPT ![f] = flow]
              /\ entries' = finish_flow(flow, entries)
    /\ UNCHANGED <<geo_vars, wx_vars>>

FlowInit ==
    /\ flows = [f \in FlowIds |-> FreshFlow]
    /\ entries = <<>>

FlowNext ==
    \E f \in FlowIds : StartFlow(f) \/ StepUserCall(f) \/ StepUserResume(f)

-----------------------------------------------------------------------------
(* climacell/weather.py                                                    *)

DAILY == "daily"
HOURLY == "hourly"
NOWCAST == "nowcast"

\* Python's None as a condition returned to the host.
NoCondition == "<None>"

\* What a property returns when it raises.
RaisedValueError == "<ValueError>"
RaisedKeyError == "<KeyError>"

\* pyclimacell.const.WeatherCode: the enum member of a v4 weather code.
WeatherCode ==
    0 :> "UNKNOWN" @@
    1000 :> "CLEAR" @@
    1001 :> "CLOUDY" @@
    1100 :> "MOSTLY_CLEAR" @@
    1101 :> "PARTLY_CLOUDY" @@
    1102 :> "MOSTLY_CLOUDY" @@
    2000 :> "FOG" @@
    2100 :> "LIGHT_FOG" @@
    3000 :> "LIGHT_WIND" @@
    3001 :> "WIND" @@
    3002 :> "STRONG_WIND" @@
    4000 :> "DRIZZLE" @@
    4001 :> "RAIN" @@
    4200 :> "LIGHT_RAIN" @@
    4201 :> "HEAVY_RAIN" @@
    5000 :> "SNOW" @@
    5001 :> "FLURRIES" @@
    5100 :> "LIGHT_SNOW" @@
    5101 :> "HEAVY_SNOW" @@
    6000 :> "FREEZING_DRIZZLE" @@
    6001 :> "FREEZING_RAIN" @@
    6200 :> "LIGHT_FREEZING_RAIN" @@
    6201 :> "HEAVY_FREEZING_RAIN" @@
    7000 :> "ICE_PELLETS" @@
    7101 :> "HEAVY_ICE_PELLETS" @@
    7102 :> "LIGHT_ICE_PELLETS" @@
    8000 :> "THUNDERSTORM"

\* climacell/const.py CONDITIONS: the host condition of a weather code.
CONDITIONS ==
    [WIND |-> "windy",
     LIGHT_WIND |-> "windy",
     STRONG_WIND |-> "windy",
     FREEZING_RAIN |-> "snowy-rainy",
     HEAVY_FREEZING_RAIN |-> "snowy-rainy",
     LIGHT_FREEZING_RAIN |-> "snowy-rainy",
     FREEZING_DRIZZLE |-> "snowy-rainy",
     ICE_PELLETS |-> "hail",
     HEAVY_ICE_PELLETS |-> "hail",
     LIGHT_ICE_PELLETS |-> "hail",
     SNOW |-> "snowy",
     HEAVY_SNOW |-> "snowy",
     LIGHT_SNOW |-> "snowy",
     FLURRIES |-> "snowy",
     THUNDERSTORM |-> "lightning",
     RAIN |-> "pouring",
     HEAVY_RAIN |-> "rainy",
     LIGHT_RAIN |-> "rainy",
     DRIZZLE |-> "rainy",
     FOG |-> "fog",
     LIGHT_FOG |-> "fog",
     CLOUDY |-> "cloudy",
     MOSTLY_CLOUDY |-> "cloudy",
     PARTLY_CLOUDY |-> "partlycloudy"]

\* climacell/const.py CONDITIONS_V3: the host condition of a v3 condition.
CONDITIONS_V3 ==
    <<"b", "r", "e", "e", "z", "y">> :> "windy" @@
    <<"f", "r", "e", "e", "z", "i", "n", "g", "_", "r", "a", "i", "n", "_", "h", "e", "a", "v", "y">> :> "snowy-rainy" @@
    <<"f", "r", "e", "e", "z", "i", "n", "g", "_", "r", "a", "i", "n">> :> "snowy-rainy" @@
    <<"f", "r", "e", "e", "z", "i", "n", "g", "_", "r", "a", "i", "n", "_", "l", "i", "g", "h", "t">> :> "snowy-rainy" @@
    <<"f", "r", "e", "e", "z", "i", "n", "g", "_", "d", "r", "i", "z", "z", "l", "e">> :> "snowy-rainy" @@
    <<"i", "c", "e", "_", "p", "e", "l", "l", "e", "t", "s", "_", "h", "e", "a", "v", "y">> :> "hail" @@
    <<"i", "c", "e", "_", "p", "e", "l", "l", "e", "t", "s">> :> "hail" @@
    <<"i", "c", "e", "_", "p", "e", "l", "l", "e", "t", "s", "_", "l", "i", "g", "h", "t">> :> "hail" @@
    <<"s", "n", "o", "w", "_", "h", "e", "a", "v", "y">> :> "snowy" @@
    <<"s", "n", "o", "w">> :> "snowy" @@
    <<"s", "n", "o", "w", "_", "l", "i", "g", "h", "t">> :> "snowy" @@
    <<"f", "l", "u", "r", "r", "i", "e", "s">> :> "snowy" @@
    <<"t", "s", "t", "o", "r", "m">> :> "lightning" @@
    <<"r", "a", "i", "n", "_", "h", "e", "a", "v", "y">> :> "pouring" @@
    <<"r", "a", "i", "n">> :> "rainy" @@
    <<"r", "a", "i", "n", "_", "l", "i", "g", "h", "t">> :> "rainy" @@
    <<"d", "r", "i", "z", "z", "l", "e">> :> "rainy" @@
    <<"f", "o", "g">> :> "fog" @@
    <<"f", "o", "g", "_", "l", "i", "g", "h", "t">> :> "fog" @@
    <<"c", "l", "o", "u", "d", "y">> :> "cloudy" @@
    <<"m", "o", "s", "t", "l", "y", "_", "c", "l", "o", "u", "d", "y">> :> "cloudy" @@
    <<"p", "a", "r", "t", "l", "y", "_", "c", "l", "o", "u", "d", "y">> :> "partlycloudy"

\* climacell/const.py CLEAR_CONDITIONS
CLEAR_CONDITIONS == [night |-> "clear-night", day |-> "sunny"]

\* climacell/const.py MAX_FORECASTS
MAX_FORECASTS == [daily |-> 14, hourly |-> 24, nowcast |-> 30]

\* The literal "clear" of the v3 translation.
StrClear == <<"c", "l", "e", "a", "r">>

\* Mutant of V4_translate_condition: only CLEAR counts as a clear sky.
V4_translate_condition_clear_only(condition, sun_is_up) ==
    IF condition = None THEN NoCondition
    ELSE IF condition.v \notin DOMAIN WeatherCode THEN RaisedValueError
    ELSE LET code == WeatherCode[condition.v]
         IN  IF code = "CLEAR"
             THEN IF sun_is_up THEN CLEAR_CONDITIONS.day ELSE CLEAR_CONDITIONS.night
             ELSE IF code \in DOMAIN CONDITIONS THEN CONDITIONS[code]
             ELSE RaisedKeyError

\* ClimaCellWeatherEntity._translate_condition
V4_translate_condition(condition, sun_is_up) ==
    IF condition = None THEN NoCondition
    ELSE IF condition.v \notin DOMAIN WeatherCode THEN RaisedValueError
    ELSE LET code == WeatherCode[condition.v]
         IN  IF code \in {"CLEAR", "MOSTLY_CLEAR"}
             THEN IF sun_is_up THEN CLEAR_CONDITIONS.day ELSE CLEAR_CONDITIONS.night
             ELSE IF code \in DOMAIN CONDITIONS THEN CONDITIONS[code]
             ELSE RaisedKeyError

\* ClimaCellV3WeatherEntity._translate_condition
V3_translate_condition(condition, sun_is_up) ==
    IF condition = NoneVal \/ condition = <<>> THEN NoCondition
    ELSE IF Contains(Lower(condition), StrClear)
         THEN IF sun_is_up THEN CLEAR_CONDITIONS.day ELSE CLEAR_CONDITIONS.night
    ELSE IF condition \in DOMAIN CONDITIONS_V3 THEN CONDITIONS_V3[condition]
    ELSE RaisedKeyError

\* BaseClimaCellWeatherEntity._translate_condition as the entity's class
\* binds it.
translate_condition(api_version, condition, sun_is_up) ==
    IF api_version = 3
    THEN V3_translate_condition(condition, sun_is_up)
    ELSE V4_translate_condition(condition, sun_is_up)

\* homeassistant.helpers.sun.is_up at a time given in hours since today's
\* 00:00 UTC: the sun is up from 06:00 to 18:00.
is_up(t) == (t % 24) \in 6..17

\* datetime.date() of a UTC time in hours since today's 00:00 UTC, in days
\* since today.
DateOf(t) == t \div 24

\* homeassistant.util.dt.start_of_local_day, the local time zone being
\* utc_offset hours ahead of UTC.
start_of_local_day(t, utc_offset) == t - ((t + utc_offset) % 24)

\* homeassistant.util.distance: metres per unit, as a fraction.
TO_METERS ==
    [mi |-> [num |-> 201168, den |-> 125],
     km |-> [num |-> 1000, den |-> 1],
     ft |-> [num |-> 381, den |-> 1250],
     m  |-> [num |-> 1, den |-> 1]]

\* homeassistant.util.distance.convert on a fixed-point value.
distance_convert(v, unit_1, unit_2) ==
    IF unit_1 = unit_2 THEN v
    ELSE (v * TO_METERS[unit_1].num * TO_METERS[unit_2].den)
             \div (TO_METERS[unit_1].den * TO_METERS[unit_2].num)

\* homeassistant.util.pressure.convert from inHg to hPa on a fixed-point
\* value (1 inHg = 33.864 hPa).
pressure_convert(v, unit_1, unit_2) ==
    IF unit_1 = unit_2 THEN v
    ELSE (v * 33864) \div 1000

\* ClimaCellWeatherEntity._get_current_property
\* (ClimaCellEntity._get_cc_value on coordinator.data[CURRENT] for v3).
get_current_property(d, property_name) == d.current[property_name]

\* Mutant of V4_pressure: the pressure is converted on every host.
V4_pressure_always_converts(w, d) ==
    LET pressure == get_current_property(d, "pressure")
    IN  IF TruthyNum(pressure)
        THEN Num(pressure_convert(pressure.v, "inHg", "hPa"))
        ELSE pressure

\* ClimaCellWeatherEntity.pressure
V4_pressure(w, d) ==
    LET pressure == get_current_property(d, "pressure")
    IN  IF w.is_metric /\ TruthyNum(pressure)
        THEN Num(pressure_convert(pressure.v, "inHg", "hPa"))
        ELSE pressure

\* ClimaCellV3WeatherEntity.pressure
V3_pressure(w, d) ==
    LET pressure == get_current_property(d, "pressure")
    IN  IF w.is_metric /\ TruthyNum(pressure)
        THEN Num(pressure_convert(pressure.v, "inHg", "hPa"))
        ELSE pressure

\* ClimaCellWeatherEntity.wind_speed
V4_wind_speed(w, d) ==
    LET wind_speed == get_current_property(d, "wind_speed")
    IN  IF w.is_metric /\ TruthyNum(wind_speed)
        THEN Num(distance_convert(wind_speed.v, "mi", "km"))
        ELSE wind_speed

\* ClimaCellV3WeatherEntity.wind_speed
V3_wind_speed(w, d) ==
    LET wind_speed == get_current_property(d, "wind_speed")
    IN  IF w.is_metric /\ TruthyNum(wind_speed)
        THEN Num(distance_convert(wind_speed.v, "mi", "km"))
        ELSE wind_speed

\* ClimaCellWeatherEntity.visibility
V4_visibility(w, d) ==
    LET visibility == get_current_property(d, "visibility")
    IN  IF w.is_metric /\ TruthyNum(visibility)
        THEN Num(distance_convert(visibility.v, "mi", "km"))
        ELSE visibility

\* ClimaCellV3WeatherEntity.visibility
V3_visibility(w, d) ==
    LET visibility == get_current_property(d, "visibility")
    IN  IF w.is_metric /\ TruthyNum(visibility)
        THEN Num(distance_convert(visibility.v, "mi", "km"))
        ELSE visibility

\* ClimaCellWeatherEntity.wind_gust and ClimaCellV3WeatherEntity.wind_gust
wind_gust(w, d) == get_current_property(d, "wind_gust")

\* BaseClimaCellWeatherEntity.extra_state_attributes (the wind gust; cloud
\* cover and precipitation type involve no unit of the host).
extra_state_attributes(w, d) ==
    LET gust == wind_gust(w, d)
    IN  [wind_gust |-> IF TruthyNum(gust) /\ w.is_metric
                       THEN Num(distance_convert(wind_gust(w, d).v, "mi", "km"))
                       ELSE gust]

\* ClimaCellWeatherEntity.condition and ClimaCellV3WeatherEntity.condition
condition(w, d) ==
    translate_condition(w.api_version, get_current_property(d, "condition"),
                        is_up(w.now))

\* BaseClimaCellWeatherEntity._forecast_dict.  A key whose value is None is
\* left out of the dict: the record holds None for it.  The values handed
\* through unchanged (precipitation probability, temperatures, wind
\* bearing) are left out.
forecast_dict(w, forecast_dt, use_datetime, cond, precipitation, wind_speed) ==
    LET translated_condition ==
            IF use_datetime
            THEN translate_condition(w.api_version, cond, is_up(forecast_dt))
            ELSE translate_condition(w.api_version, cond, TRUE)
        precipitation_out ==
            IF w.is_metric /\ TruthyNum(precipitation)
            THEN Num(distance_convert(precipitation.v \div 12, "ft", "m") * 1000)
            ELSE precipitation
        wind_speed_out ==
            IF w.is_metric /\ TruthyNum(wind_speed)
            THEN Num(distance_convert(wind_speed.v, "mi", "km"))
            ELSE wind_speed
    IN  [datetime      |-> forecast_dt,
         condition     |-> translated_condition,
         precipitation |-> precipitation_out,
         wind_speed    |-> wind_speed_out]

\* A list returned to the host, or handed over by the coordinator.
List(items) == [is_none |-> FALSE, items |-> items]

\* Mutant of is_past: today's forecasts are thrown out as well.
is_past_or_today(forecast_dt, now) == DateOf(forecast_dt) <= DateOf(now)

\* forecast_dt.date() < dt_util.utcnow().date()  (line 317)
is_past(forecast_dt, now) == DateOf(forecast_dt) < DateOf(now)

\* Mutant of V4_forecast_entry: daily entries use the sun's position too.
V4_forecast_entry_daily_uses_datetime(w, forecast) ==
    LET precipitation ==
            IF w.forecast_type = DAILY
            THEN IF TruthyNum(forecast.precipitation)
                 THEN Num(forecast.precipitation.v * 24)
                 ELSE forecast.precipitation
            ELSE IF w.forecast_type = NOWCAST
            THEN IF TruthyNum(forecast.precipitation)
                 THEN Num((forecast.precipitation.v \div 60) * w.timestep)
                 ELSE forecast.precipitation
            ELSE forecast.precipitation
    IN  forecast_dict(w, forecast.ts, TRUE, forecast.condition,
                      precipitation, forecast.wind_speed)

\* ClimaCellWeatherEntity.forecast, the loop body for a forecast that is
\* kept (lines 320-356).
V4_forecast_entry(w, forecast) ==
    LET use_datetime == w.forecast_type # DAILY
        precipitation ==
            IF w.forecast_type = DAILY
            THEN IF TruthyNum(forecast.precipitation)
                 THEN Num(forecast.precipitation.v * 24)
                 ELSE forecast.precipitation
            ELSE IF w.forecast_type = NOWCAST
            THEN IF TruthyNum(forecast.precipitation)
                 THEN Num((forecast.precipitation.v \div 60) * w.timestep)
                 ELSE forecast.precipitation
            ELSE forecast.precipitation
    IN  forecast_dict(w, forecast.ts, use_datetime, forecast.condition,
                      precipitation, forecast.wind_speed)

\* ClimaCellWeatherEntity.forecast, the loop (lines 313-360) from the i-th
\* raw forecast on.
RECURSIVE V4_forecast_loop(_, _, _, _, _)
V4_forecast_loop(w, raw, i, forecasts, forecast_count) ==
    IF i > Len(raw) THEN forecasts
    ELSE IF is_past(raw[i].ts, w.now)
         THEN V4_forecast_loop(w, raw, i + 1, forecasts, forecast_count)
    ELSE LET appended == Append(forecasts, V4_forecast_entry(w, raw[i]))
         IN  IF forecast_count + 1 = MAX_FORECASTS[w.forecast_type]
             THEN appended
             ELSE V4_forecast_loop(w, raw, i + 1, appended, forecast_count + 1)

\* ClimaCellWeatherEntity.forecast
V4_forecast(w, d) ==
    LET raw_forecasts == d.forecasts
    IN  IF raw_forecasts = None \/ raw_forecasts.items = <<>>
        THEN None
        ELSE List(V4_forecast_loop(w, raw_forecasts.items, 1, <<>>, 0))

\* ClimaCellV3WeatherEntity.forecast, the loop body (lines 480-535).
V3_forecast_entry(w, forecast) ==
    LET use_datetime == w.forecast_type # DAILY
        forecast_dt ==
            IF w.forecast_type = DAILY
            THEN start_of_local_day(forecast.ts, w.utc_offset)
            ELSE forecast.ts
        precipitation ==
            IF w.forecast_type = DAILY
            THEN forecast.precipitation_daily
            ELSE IF w.forecast_type = NOWCAST /\ TruthyNum(forecast.precipitation)
            THEN Num((forecast.precipitation.v \div 60) * w.timestep)
            ELSE forecast.precipitation
    IN  forecast_dict(w, forecast_dt, use_datetime, forecast.condition,
                      precipitation, forecast.wind_speed)

\* Mutant of V3_forecast: the window of the v4 forecast is applied.
V3_forecast_with_window(w, d) ==
    LET raw_forecasts == d.forecasts
        NotPast(forecast) == ~is_past(forecast.ts, w.now)
    IN  IF raw_forecasts = None \/ raw_forecasts.items = <<>>
        THEN None
        ELSE LET kept == SelectSeq(raw_forecasts.items, NotPast)
                 n    == IF Len(kept) < MAX_FORECASTS[w.forecast_type]
                         THEN Len(kept) ELSE MAX_FORECASTS[w.forecast_type]
             IN  List([i \in 1..n |-> V3_forecast_entry(w, kept[i])])

\* ClimaCellV3WeatherEntity.forecast
V3_forecast(w, d) ==
    LET raw_forecasts == d.forecasts
    IN  IF raw_forecasts = None \/ raw_forecasts.items = <<>>
        THEN None
        ELSE List([i \in DOMAIN raw_forecasts.items |->
                      V3_forecast_entry(w, raw_forecasts.items[i])])

\* ---- the host reads a property of the entity

ReadCondition ==
    /\ prop' = "condition"
    /\ value' = condition(wx, coordinator)
    /\ UNCHANGED <<wx, coordinator, geo_vars, flow_vars>>

ReadPressure ==
    /\ prop' = "pressure"
    /\ value' = IF wx.api_version = 3 THEN V3_pressure(wx, coordinator)
                ELSE V4_pressure(wx, coordinator)
    /\ UNCHANGED <<wx, coordinator, geo_vars, flow_vars>>

ReadWindSpeed ==
    /\ prop' = "wind_speed"
    /\ value' = IF wx.api_version = 3 THEN V3_wind_speed(wx, coordinator)
                ELSE V4_wind_speed(wx, coordinator)
    /\ UNCHANGED <<wx, coordinator, geo_vars, flow_vars>>

ReadVisibility ==
    /\ prop' = "visibility"
    /\ value' = IF wx.api_version = 3 THEN V3_visibility(wx, coordinator)
                ELSE V4_visibility(wx, coordinator)
    /\ UNCHANGED <<wx, coordinator, geo_vars, flow_vars>>

ReadExtraStateAttributes ==
    /\ prop' = "extra_state_attributes"
    /\ value' = extra_state_attributes(wx, coordinator)
    /\ UNCHANGED <<wx, coordinator, geo_vars, flow_vars>>

ReadForecast ==
    /\ prop' = "forecast"
    /\ value' = IF wx.api_version = 3 THEN V3_forecast(wx, coordinator)
                ELSE V4_forecast(wx, coordinator)
    /\ UNCHANGED <<wx, coordinator, geo_vars, flow_vars>>

\* ---- the inputs of the weather entity

\* v3 condition strings.
S_clear == <<"c", "l", "e", "a", "r">>
S_mostly_clear == <<"m", "o", "s", "t", "l", "y", "_", "c", "l", "e", "a", "r">>
S_Clear == <<"C", "l", "e", "a", "r">>
S_CLEAR == <<"C", "L", "E", "A", "R">>
S_Mostly_Clear == <<"M", "o", "s", "t", "l", "y", "_", "C", "l", "e", "a", "r">>
S_Cloudy == <<"C", "l", "o", "u", "d", "y">>
S_hazy == <<"h", "a", "z", "y">>
S_cloudy == <<"c", "l", "o", "u", "d", "y">>


\* A vendor value that is absent, zero, or 2.0.
VendorValues == {None, Num(0), Num(2000)}

\* CONF_TIMESTEP options of the config entry, in minutes.
Timesteps == {15, 30}

\* Conditions of the v4 API: every weather code, no code, and a number that
\* is no weather code.
V4Conditions == {None} \cup {Num(c) : c \in DOMAIN WeatherCode \cup {9999}}

\* Conditions of the v3 API: every condition of the table, the clear
\* conditions in several spellings, no condition, the empty string, and
\* strings the table does not hold.
V3Conditions ==
    DOMAIN CONDITIONS_V3 \cup
    {NoneVal, <<>>, S_clear, S_mostly_clear, S_Clear, S_CLEAR, S_Mostly_Clear,
     S_Cloudy, S_hazy}

NoCurrent ==
    [condition |-> None, pressure |-> None, wind_speed |-> None,
     visibility |-> None, wind_gust |-> None]

\* The entity of a component that is not running.
WxIdle ==
    /\ wx = [api_version |-> 4, forecast_type |-> DAILY, timestep |-> 15,
             is_metric |-> FALSE, now |-> 12, utc_offset |-> 2]
    /\ coordinator = [current |-> NoCurrent, forecasts |-> None]
    /\ prop = "none"
    /\ value = None

\* Entities whose current condition is read at night and by day.
WxConditionInit ==
    /\ wx \in [api_version : {3, 4}, forecast_type : {DAILY}, timestep : {15},
               is_metric : {FALSE}, now : {3, 12}, utc_offset : {2}]
    /\ \E c \in IF wx.api_version = 3 THEN V3Conditions ELSE V4Conditions :
          coordinator = [current |-> [NoCurrent EXCEPT !.condition = c],
                         forecasts |-> None]
    /\ prop = "none"
    /\ value = None

\* Raw forecast of the units specification: one forecast for today noon.
UnitsForecasts(api_version) ==
    {List(<<[ts |-> 12,
             condition |-> IF api_version = 3 THEN S_cloudy ELSE Num(1001),
             precipitation |-> p,
             precipitation_daily |-> pd,
             wind_speed |-> ws]>>) :
        p \in VendorValues,
        pd \in IF api_version = 3 THEN VendorValues ELSE {None},
        ws \in VendorValues}

\* Entities on metric and imperial hosts, with every vendor value absent,
\* zero or positive.
WxUnitsInit ==
    /\ wx \in [api_version : {3, 4}, forecast_type : {DAILY, HOURLY, NOWCAST},
               timestep : Timesteps, is_metric : BOOLEAN, now : {12},
               utc_offset : {2}]
    /\ \E cur \in [condition : {None}, pressure : VendorValues,
                   wind_speed : VendorValues, visibility : VendorValues,
                   wind_gust : VendorValues],
          fc \in UnitsForecasts(wx.api_version) :
          coordinator = [current |-> cur, forecasts |-> fc]
    /\ prop = "none"
    /\ value = None

\* Longest list of raw forecasts in any order.
MaxLen == 3

\* Most forecasts of past days, and of today and later, in a chronological
\* list of raw forecasts.
MaxPast == 2
MaxFuture == 31

\* Times of raw forecasts, in hours since today's 00:00 UTC: yesterday
\* 03:00 and 21:00, today 03:00 and 12:00, tomorrow 03:00.
ForecastTimes == {-21, -3, 3, 12, 27}

\* Conditions of raw forecasts: a clear one and another.
ForecastConditions(api_version) ==
    IF api_version = 3 THEN {S_clear, S_cloudy} ELSE {Num(1000), Num(1001)}

RawForecast(ts, cond) ==
    [ts |-> ts, condition |-> cond, precipitation |-> None,
     precipitation_daily |-> None, wind_speed |-> None]

\* The chronological list of `past` forecasts before today and `future`
\* forecasts from today 00:00 on, one per day (DAILY) or per hour.
Chronological(api_version, forecast_type, past, future) ==
    LET step == IF forecast_type = DAILY THEN 24 ELSE 1
        cond == IF api_version = 3 THEN S_clear ELSE Num(1000)
    IN  [i \in 1..(past + future) |-> RawForecast((i - past - 1) * step, cond)]

\* The raw forecasts the coordinator may hold: none, any list of up to
\* MaxLen forecasts, or a chronological list.
RawForecastLists(api_version, forecast_type) ==
    {None}
    \cup {List(l) : l \in UNION {[1..n -> {RawForecast(ts, c) :
                                     ts \in ForecastTimes,
                                     c \in ForecastConditions(api_version)}] :
                                  n \in 0..MaxLen}}
    \cup {List(Chronological(api_version, forecast_type, past, future)) :
             past \in 0..MaxPast, future \in 0..MaxFuture}

WxForecastInit ==
    /\ wx \in [api_version : {3, 4}, forecast_type : {DAILY, HOURLY, NOWCAST},
               timestep : {15}, is_metric : {FALSE}, now : {12},
               utc_offset : {2}]
    /\ \E fc \in RawForecastLists(wx.api_version, wx.forecast_type) :
          coordinator = [current |-> NoCurrent, forecasts |-> fc]
    /\ prop = "none"
    /\ value = None

-----------------------------------------------------------------------------
Init == GeoInit /\ FlowInit /\ WxIdle

SpecGeo == Init /\ [][GeoNext]_vars

SpecFlow == Init /\ [][FlowNext]_vars

ConditionInit == GeoInit /\ FlowInit /\ WxConditionInit

ConditionNext == ReadCondition

SpecCondition == ConditionInit /\ [][ConditionNext]_vars

UnitsInit == GeoInit /\ FlowInit /\ WxUnitsInit

UnitsNext ==
    \/ ReadPressure
    \/ ReadWindSpeed
    \/ ReadVisibility
    \/ ReadExtraStateAttributes
    \/ ReadForecast

SpecUnits == UnitsInit /\ [][UnitsNext]_vars

ForecastInit == GeoInit /\ FlowInit /\ WxForecastInit

ForecastNext == ReadForecast

SpecForecast == ForecastInit /\ [][ForecastNext]_vars

-----------------------------------------------------------------------------
(* Claims: geo_location trigger                                            *)

\* The state has a source attribute equal to the trigger's source.
C1_HasSource(state) == state # None /\ state.source = trigger.source

\* The state is in the zone (a missing state is in no zone).
C1_InZone(state) == state # None /\ state.in_zone

\* The event is one the claim says invokes the action.
C1_Fires(e) ==
    /\ C1_HasSource(e.old_state) \/ C1_HasSource(e.new_state)
    /\ \/ /\ trigger.trigger_event = "enter"
          /\ ~C1_InZone(e.old_state)
          /\ C1_InZone(e.new_state)
       \/ /\ trigger.trigger_event = "leave"
          /\ C1_InZone(e.old_state)
          /\ ~C1_InZone(e.new_state)

\* C1: over any sequence of delivered state-change events, the action is
\* invoked exactly once, in order, for each event whose old or new state has
\* the trigger's source and that makes the enter (resp. leave) transition of
\* the trigger's event, and for no other event.
C1_ActionOncePerMatchingEvent ==
    trigger # NotAttached =>
        LET firing == SelectSeq(events, C1_Fires)
        IN  /\ Len(calls) = Len(firing)
            /\ \A i \in DOMAIN calls :
                  /\ calls[i].from_state = firing[i].old_state
                  /\ calls[i].to_state = firing[i].new_state

\* C1 witness: two events were delivered, one invoked the action and one
\* with a matching source did not.
C1_Witness ==
    /\ trigger # NotAttached
    /\ Len(events) = 2
    /\ Len(calls) = 1
    /\ \E i \in DOMAIN events :
          /\ ~C1_Fires(events[i])
          /\ C1_HasSource(events[i].new_state)

\* The step taken delivers a state-change event to the attached listener.
GeoDelivered == trigger # NotAttached /\ Len(events') = Len(events) + 1

\* The event the step delivers.
DeliveredEvent == events'[Len(events')]

\* The step invokes the action once, with the event's states.
ActionInvoked ==
    /\ Len(calls') = Len(calls) + 1
    /\ SubSeq(calls', 1, Len(calls)) = calls
    /\ calls'[Len(calls')].from_state = DeliveredEvent.old_state
    /\ calls'[Len(calls')].to_state = DeliveredEvent.new_state
    /\ calls'[Len(calls')].event = trigger.trigger_event

\* The step does not invoke the action.
ActionNotInvoked == calls' = calls

\* The state is present, has the trigger's source and is in the zone.
C11_MatchesInZone(state) ==
    state # None /\ state.source = trigger.source /\ state.in_zone

\* C11: a missing state counts as not in the zone.  An event with no old
\* state whose new state has the trigger's source and is in the zone invokes
\* the action of an enter trigger (and not that of a leave trigger); an
\* event with no new state whose old state has the trigger's source and was
\* in the zone invokes the action of a leave trigger (and not that of an
\* enter trigger); an event with neither state never invokes the action.
C11_MissingStateNotInZone ==
    [][GeoDelivered =>
        LET e == DeliveredEvent
        IN  /\ (e.old_state = None /\ C11_MatchesInZone(e.new_state)) =>
                   IF trigger.trigger_event = "enter"
                   THEN ActionInvoked ELSE ActionNotInvoked
            /\ (e.new_state = None /\ C11_MatchesInZone(e.old_state)) =>
                   IF trigger.trigger_event = "leave"
                   THEN ActionInvoked ELSE ActionNotInvoked
            /\ (e.old_state = None /\ e.new_state = None) => ActionNotInvoked
            /\ (e.old_state = None /\ trigger.trigger_event = "leave") =>
                   ActionNotInvoked
            /\ (e.new_state = None /\ trigger.trigger_event = "enter") =>
                   ActionNotInvoked
    ]_vars

\* C11 witness: an enter trigger has invoked the action for an entity that
\* was created in the zone, and not for an event without states.
C11_Witness ==
    /\ trigger # NotAttached
    /\ trigger.trigger_event = "enter"
    /\ Len(events) = 2
    /\ events[1].old_state = None
    /\ C11_MatchesInZone(events[1].new_state)
    /\ events[2].old_state = None
    /\ events[2].new_state = None
    /\ Len(calls) = 1
    /\ calls[1].from_state = None
    /\ calls[1].to_state = events[1].new_state

\* The string holds an uppercase letter.
C12_HasUpper(s) ==
    \E i \in DOMAIN s : \E j \in DOMAIN UpperCase : s[i] = UpperCase[j]

\* C12: the source bound at attach is the configured source lowercased, and
\* it is compared for equality with the state's source attribute as that
\* is: an event whose old and new states both carry a source attribute with
\* an uppercase letter never invokes the action, whatever the configured
\* source is.
C12_UppercaseSourceNeverMatches ==
    [][/\ trigger' # NotAttached =>
              trigger'.source = Lower(trigger'.conf_source)
       /\ GeoDelivered =>
              LET e == DeliveredEvent
              IN  (/\ e.old_state # None
                   /\ e.new_state # None
                   /\ C12_HasUpper(e.old_state.source)
                   /\ C12_HasUpper(e.new_state.source)) => ActionNotInvoked
    ]_vars

\* C12 witness: a trigger configured with the source 'Ns' has not invoked
\* its enter action for an entity of source 'Ns' that moved into the zone.
C12_Witness ==
    /\ trigger # NotAttached
    /\ trigger.conf_source = <<"N", "s">>
    /\ trigger.trigger_event = "enter"
    /\ Len(events) = 1
    /\ events[1].old_state # None
    /\ events[1].new_state # None
    /\ events[1].old_state.source = trigger.conf_source
    /\ events[1].new_state.source = trigger.conf_source
    /\ ~events[1].old_state.in_zone
    /\ events[1].new_state.in_zone
    /\ calls = <<>>

-----------------------------------------------------------------------------
(* Claims: ialarm config flow                                              *)

\* Number of times a host or device operation occurs in a call's trace.
CountOf(op, trace) == Cardinality({i \in DOMAIN trace : trace[i] = op})

\* The step taken resumes flow f with the probe's outcome.
Resumed(f) == flows[f].pc = "probing" /\ flows'[f].pc # "probing"

\* The 'user' form with the one error given.
UserFormWith(base) ==
    [is_none |-> FALSE, type |-> "form", step_id |-> "user",
     errors |-> {<<"base", base>>}]

\* ConnectionError and its subclasses among the exceptions of the probe.
C2_ConnectionErrors == {"ConnectionError", "ConnectionRefusedError"}

\* C2: when the probe of a call with user input raises ConnectionError, the
\* step returns the 'user' form with errors base = 'cannot_connect', sets no
\* unique ID and creates no config entry.
C2_ConnectionErrorShowsCannotConnect ==
    [][\A f \in FlowIds :
         (/\ Resumed(f)
          /\ flows'[f].probe.kind = "raise"
          /\ flows'[f].probe.exc \in C2_ConnectionErrors)
         => /\ flows'[f].result = UserFormWith("cannot_connect")
            /\ flows'[f].unique_id = NoUniqueId
            /\ CountOf("async_set_unique_id", flows'[f].trace) = 0
            /\ CountOf("async_create_entry", flows'[f].trace) = 0
            /\ CountOf("log_exception", flows'[f].trace) = 0
            /\ entries' = entries]_vars

\* C2 witness: a call whose probe raised a ConnectionError has returned,
\* while an entry is configured.
C2_Witness ==
    \E f \in FlowIds :
        /\ flows[f].pc = "ready"
        /\ flows[f].probe = [kind |-> "raise", exc |-> "ConnectionRefusedError"]
        /\ flows[f].result.type = "form"
        /\ Len(entries) = 1

\* C3: when the probe of a call with user input raises an exception other
\* than ConnectionError, the exception does not leave the step: it is logged
\* once, the step returns the 'user' form with errors base = 'unknown', sets
\* no unique ID and creates no config entry.
C3_OtherExceptionShowsUnknown ==
    [][\A f \in FlowIds :
         (/\ Resumed(f)
          /\ flows'[f].probe.kind = "raise"
          /\ flows'[f].probe.exc \notin C2_ConnectionErrors)
         => /\ flows'[f].result = UserFormWith("unknown")
            /\ CountOf("log_exception", flows'[f].trace) = 1
            /\ flows'[f].unique_id = NoUniqueId
            /\ CountOf("async_set_unique_id", flows'[f].trace) = 0
            /\ CountOf("async_create_entry", flows'[f].trace) = 0
            /\ entries' = entries]_vars

\* C3 witness: a call whose probe raised ValueError has returned the form,
\* while an entry is configured.
C3_Witness ==
    \E f \in FlowIds :
        /\ flows[f].pc = "ready"
        /\ flows[f].probe = [kind |-> "raise", exc |-> "ValueError"]
        /\ flows[f].result.type = "form"
        /\ Len(entries) = 1

\* Position of the first occurrence of op in a trace, 0 when it is absent.
FirstOf(op, trace) ==
    LET at == {i \in DOMAIN trace : trace[i] = op}
    IN  IF at = {} THEN 0 ELSE CHOOSE i \in at : \A j \in at : i <= j

\* C4: when the probe returns a MAC address the flow's unique ID is that
\* address, set before the config entry is created; the entry created has
\* the submitted host as its title and the submitted input as its data.
C4_UniqueIdThenEntry ==
    \A f \in FlowIds :
        flows[f].probe.kind = "return" =>
            /\ flows[f].unique_id = flows[f].probe.mac
            /\ CountOf("async_set_unique_id", flows[f].trace) = 1
            /\ flows[f].result.type = "create_entry" =>
                 /\ FirstOf("async_set_unique_id", flows[f].trace)
                        < FirstOf("async_create_entry", flows[f].trace)
                 /\ flows[f].result.title = flows[f].user_input.host
                 /\ flows[f].result.data = flows[f].user_input
                 /\ \E i \in DOMAIN entries :
                        entries[i] = [unique_id |-> flows[f].probe.mac,
                                      title     |-> flows[f].user_input.host,
                                      data      |-> flows[f].user_input]

\* C4 witness: a flow has created an entry for the MAC address probed.
C4_Witness ==
    \E f \in FlowIds :
        /\ flows[f].probe.kind = "return"
        /\ flows[f].result.type = "create_entry"
        /\ Len(entries) = 2

\* The MAC address is the unique ID of a configured entry.
Configured(mac) == \E i \in DOMAIN entries : entries[i].unique_id = mac

\* C5: a flow whose probe returns the MAC address of a configured entry
\* aborts after the unique-ID check without calling async_create_entry and
\* without adding an entry, and no two entries share a unique ID.
C5_NoEntryForConfiguredMac ==
    [][/\ \A f \in FlowIds :
            (/\ Resumed(f)
             /\ flows'[f].probe.kind = "return"
             /\ Configured(flows'[f].probe.mac))
            => /\ flows'[f].result.type = "abort"
               /\ CountOf("abort_if_unique_id_configured", flows'[f].trace) = 1
               /\ CountOf("async_create_entry", flows'[f].trace) = 0
               /\ entries' = entries
       /\ \A i, j \in DOMAIN entries' :
            entries'[i].unique_id = entries'[j].unique_id => i = j]_vars

\* C5 witness: a flow has aborted on a MAC address that another flow
\* configured.
C5_Witness ==
    \E f, g \in FlowIds :
        /\ f # g
        /\ flows[f].pc = "finished"
        /\ flows[g].pc = "finished"
        /\ flows[f].result.type = "abort"
        /\ flows[g].result.type = "create_entry"
        /\ flows[f].unique_id = flows[g].unique_id
        /\ Configured(flows[f].unique_id)

\* C6: a call with user input makes exactly one probe whatever its outcome,
\* and a call with no user input makes none and returns the 'user' form
\* without errors.
C6_OneProbePerSubmission ==
    \A f \in FlowIds :
        /\ flows[f].pc = "probing" => CountOf("get_mac", flows[f].trace) = 1
        /\ (flows[f].pc # "probing" /\ flows[f].user_input # None) =>
              /\ CountOf("get_mac", flows[f].trace) = 1
              /\ flows[f].probe # NoProbe
        /\ (flows[f].result # None /\ flows[f].user_input = None) =>
              /\ CountOf("get_mac", flows[f].trace) = 0
              /\ flows[f].probe = NoProbe
              /\ flows[f].result =
                    [is_none |-> FALSE, type |-> "form", step_id |-> "user",
                     errors |-> {}]

\* C6 witness: one flow has returned from a failed probe and another from a
\* call with no input.
C6_Witness ==
    \E f, g \in FlowIds :
        /\ flows[f].pc = "ready"
        /\ flows[f].probe.kind = "raise"
        /\ flows[g].result # None
        /\ flows[g].user_input = None

-----------------------------------------------------------------------------
(* Claims: climacell weather entity                                        *)

\* The v4 codes CLEAR and MOSTLY_CLEAR.
C7_V4ClearCodes == {1000, 1100}

\* The v3 conditions of the model that contain 'clear' in some case.
C7_V3ClearStrings == {S_clear, S_mostly_clear, S_Clear, S_CLEAR, S_Mostly_Clear}

\* The clear condition of the day or of the night.
C7_ClearCondition(sun_is_up) ==
    IF sun_is_up THEN CLEAR_CONDITIONS.day ELSE CLEAR_CONDITIONS.night

\* C7: the condition property gives the day or night clear condition, by
\* the sun, for CLEAR and MOSTLY_CLEAR (v4) and for any string containing
\* 'clear' in any case (v3); the lookup-table entry, whatever the sun, for
\* every other condition the table knows; and None for a missing condition
\* (None, and for v3 the empty string).
C7_DayNightOnlyForClear ==
    prop = "condition" =>
        LET c   == coordinator.current.condition
            sun == is_up(wx.now)
        IN  IF wx.api_version = 4
            THEN /\ c = None => value = NoCondition
                 /\ (c # None /\ c.v \in C7_V4ClearCodes) =>
                        value = C7_ClearCondition(sun)
                 /\ (/\ c # None
                     /\ c.v \notin C7_V4ClearCodes
                     /\ c.v \in DOMAIN WeatherCode
                     /\ WeatherCode[c.v] \in DOMAIN CONDITIONS) =>
                        value = CONDITIONS[WeatherCode[c.v]]
            ELSE /\ c \in {NoneVal, <<>>} => value = NoCondition
                 /\ c \in C7_V3ClearStrings => value = C7_ClearCondition(sun)
                 /\ (c \notin C7_V3ClearStrings /\ c \in DOMAIN CONDITIONS_V3) =>
                        value = CONDITIONS_V3[c]

\* C7 witness: the v3 entity has translated 'Mostly_Clear' at night.
C7_Witness ==
    /\ prop = "condition"
    /\ wx.api_version = 3
    /\ coordinator.current.condition = S_Mostly_Clear
    /\ ~is_up(wx.now)
    /\ value = "clear-night"

\* What a metric host gets for a value that is present and not zero, and
\* any host gets otherwise.
C8_Expected(x, converted) ==
    IF wx.is_metric /\ x # None /\ x.v # 0 THEN Num(converted) ELSE x

C8_Kilometers(x) == IF x = None THEN 0 ELSE distance_convert(x.v, "mi", "km")

C8_Hectopascals(x) == IF x = None THEN 0 ELSE pressure_convert(x.v, "inHg", "hPa")

C8_Millimeters(x) ==
    IF x = None THEN 0 ELSE distance_convert(x.v \div 12, "ft", "m") * 1000

\* The raw forecast of the units specification.
C8_Raw == coordinator.forecasts.items[1]

\* The precipitation the vendor gives for the forecast.
C8_VendorPrecipitation ==
    IF wx.api_version = 3 /\ wx.forecast_type = DAILY
    THEN C8_Raw.precipitation_daily
    ELSE C8_Raw.precipitation

\* The precipitation amount of the forecast: the vendor's value, times 24 in
\* a v4 DAILY forecast and times timestep/60 in a NOWCAST forecast when it
\* is present and not zero.
C8_PrecipitationAmount ==
    LET p == C8_VendorPrecipitation
    IN  IF p = None \/ p.v = 0 THEN p
        ELSE IF wx.api_version = 4 /\ wx.forecast_type = DAILY THEN Num(p.v * 24)
        ELSE IF wx.forecast_type = NOWCAST THEN Num((p.v \div 60) * wx.timestep)
        ELSE p

\* The claim for every value but the forecast precipitation.
C8_OtherValues ==
    /\ prop = "pressure" =>
          value = C8_Expected(coordinator.current.pressure,
                              C8_Hectopascals(coordinator.current.pressure))
    /\ prop = "wind_speed" =>
          value = C8_Expected(coordinator.current.wind_speed,
                              C8_Kilometers(coordinator.current.wind_speed))
    /\ prop = "visibility" =>
          value = C8_Expected(coordinator.current.visibility,
                              C8_Kilometers(coordinator.current.visibility))
    /\ prop = "extra_state_attributes" =>
          value.wind_gust = C8_Expected(coordinator.current.wind_gust,
                                        C8_Kilometers(coordinator.current.wind_gust))
    /\ prop = "forecast" =>
          value.items[1].wind_speed =
              C8_Expected(C8_Raw.wind_speed, C8_Kilometers(C8_Raw.wind_speed))

\* C8 as stated: pressure, wind speed, visibility, wind gust, forecast wind
\* speed and forecast precipitation are the vendor's value on a non-metric
\* host and for None or zero, and the converted vendor value otherwise.
C8_VendorValueConvertedOnlyOnMetric ==
    /\ C8_OtherValues
    /\ prop = "forecast" =>
          value.items[1].precipitation =
              C8_Expected(C8_VendorPrecipitation,
                          C8_Millimeters(C8_VendorPrecipitation))

\* C8 as amended: as stated for pressure, wind speed, visibility, wind gust
\* and forecast wind speed; the forecast precipitation is the precipitation
\* amount (the vendor's value scaled by the forecast type) on a non-metric
\* host and for None or zero, and the converted amount otherwise.
C8_AmountConvertedOnlyOnMetric ==
    /\ C8_OtherValues
    /\ prop = "forecast" =>
          value.items[1].precipitation =
              C8_Expected(C8_PrecipitationAmount,
                          C8_Millimeters(C8_PrecipitationAmount))

\* C8 witness: a metric host has read the v4 DAILY forecast of a non-zero
\* precipitation and wind speed, and got neither vendor value back.
C8_Witness ==
    /\ prop = "forecast"
    /\ wx.is_metric
    /\ wx.api_version = 4
    /\ wx.forecast_type = DAILY
    /\ C8_Raw.precipitation = Num(2000)
    /\ C8_Raw.wind_speed = Num(2000)
    /\ value.items[1].precipitation # C8_Raw.precipitation
    /\ value.items[1].wind_speed # C8_Raw.wind_speed

\* The raw forecast is not of a day before today (UTC).
C9_NotBeforeToday(forecast) == DateOf(forecast.ts) >= DateOf(wx.now)

\* The first n elements of a sequence, or all of it.
FirstN(seq, n) == SubSeq(seq, 1, IF Len(seq) < n THEN Len(seq) ELSE n)

\* The raw forecasts the v4 forecast keeps.
C9_Kept ==
    FirstN(SelectSeq(coordinator.forecasts.items, C9_NotBeforeToday),
           MAX_FORECASTS[wx.forecast_type])

\* C9: the v4 forecast is None for missing or empty raw forecasts, and
\* otherwise the entries, in order, of the first MAX_FORECASTS[forecast_type]
\* raw forecasts not dated before today (UTC): no entry is dated before
\* today and there are at most MAX_FORECASTS[forecast_type] of them.
C9_V4ForecastWindow ==
    (prop = "forecast" /\ wx.api_version = 4) =>
        IF coordinator.forecasts = None \/ coordinator.forecasts.items = <<>>
        THEN value = None
        ELSE /\ value # None
             /\ Len(value.items) = Len(C9_Kept)
             /\ \A i \in DOMAIN value.items :
                   /\ value.items[i] = V4_forecast_entry(wx, C9_Kept[i])
                   /\ value.items[i].datetime = C9_Kept[i].ts
                   /\ DateOf(value.items[i].datetime) >= DateOf(wx.now)
             /\ Len(value.items) <= MAX_FORECASTS[wx.forecast_type]

\* C9 witness: an hourly forecast was cut to MAX_FORECASTS entries and lost
\* a forecast of yesterday.
C9_Witness ==
    /\ prop = "forecast"
    /\ wx.api_version = 4
    /\ wx.forecast_type = HOURLY
    /\ value # None
    /\ Len(value.items) = MAX_FORECASTS[HOURLY]
    /\ Len(coordinator.forecasts.items) > MAX_FORECASTS[HOURLY] + 1
    /\ DateOf(coordinator.forecasts.items[1].ts) < DateOf(wx.now)

\* The raw forecasts that the entries of the forecast stand for.
C10_Sources ==
    IF wx.api_version = 4 THEN C9_Kept ELSE coordinator.forecasts.items

\* C10: in both API versions an entry of a DAILY forecast has its condition
\* translated with the sun up, so it is never the night clear condition; an
\* entry of an HOURLY or NOWCAST forecast has it translated with the sun's
\* position at the time of the forecast.
C10_DailyUsesSunUp ==
    (prop = "forecast" /\ value # None) =>
        /\ Len(value.items) = Len(C10_Sources)
        /\ \A i \in DOMAIN value.items :
              LET raw == C10_Sources[i]
              IN  IF wx.forecast_type = DAILY
                  THEN /\ value.items[i].condition =
                             translate_condition(wx.api_version, raw.condition, TRUE)
                       /\ value.items[i].condition # CLEAR_CONDITIONS.night
                  ELSE value.items[i].condition =
                           translate_condition(wx.api_version, raw.condition,
                                               is_up(raw.ts))

\* C10 witness: a daily forecast holds the day clear condition for a clear
\* night hour, and an hourly one the night clear condition.
C10_Witness ==
    /\ prop = "forecast"
    /\ value # None
    /\ Len(value.items) = 2
    /\ Len(coordinator.forecasts.items) = 2
    /\ \A i \in 1..2 :
          /\ coordinator.forecasts.items[i].ts = 27
          /\ coordinator.forecasts.items[i].condition =
                 (IF wx.api_version = 3 THEN S_clear ELSE Num(1000))
    /\ \/ wx.forecast_type = DAILY /\ value.items[1].condition = "sunny"
       \/ wx.forecast_type = HOURLY /\ value.items[1].condition = "clear-night"

\* The raw forecasts the coordinator holds, when there are some.
C13_Raw == coordinator.forecasts.items

\* C13: the v3 forecast of a non-empty list of raw forecasts has exactly one
\* entry per raw forecast, in the order of the list, whatever the dates of
\* the forecasts and however many there are; the v4 forecast of a list
\* that holds a forecast dated before today, or more than
\* MAX_FORECASTS[forecast_type] forecasts, has fewer entries than the list.
C13_V3ForecastUnfiltered ==
    (/\ prop = "forecast"
     /\ coordinator.forecasts # None
     /\ coordinator.forecasts.items # <<>>) =>
        IF wx.api_version = 3
        THEN /\ value # None
             /\ Len(value.items) = Len(C13_Raw)
             /\ \A i \in DOMAIN C13_Raw :
                   /\ value.items[i] = V3_forecast_entry(wx, C13_Raw[i])
                   /\ value.items[i].datetime =
                          IF wx.forecast_type = DAILY
                          THEN start_of_local_day(C13_Raw[i].ts, wx.utc_offset)
                          ELSE C13_Raw[i].ts
        ELSE (\/ \E i \in DOMAIN C13_Raw : DateOf(C13_Raw[i].ts) < DateOf(wx.now)
              \/ Len(C13_Raw) > MAX_FORECASTS[wx.forecast_type]) =>
                 /\ value # None
                 /\ Len(value.items) < Len(C13_Raw)

\* C13 witness: the v3 hourly forecast of a list that starts yesterday and
\* is longer than MAX_FORECASTS[HOURLY] has an entry for each raw forecast.
C13_Witness ==
    /\ prop = "forecast"
    /\ wx.api_version = 3
    /\ wx.forecast_type = HOURLY
    /\ value # None
    /\ Len(C13_Raw) > MAX_FORECASTS[HOURLY] + 1
    /\ DateOf(C13_Raw[1].ts) < DateOf(wx.now)
    /\ Len(value.items) = Len(C13_Raw)
    /\ value.items[1].datetime = C13_Raw[1].ts

=============================================================================
